---- MODULE Spec2Model ----
(***************************************************************************)
(* The automation rule engine of zigbee2mqtt-extensions                    *)
(* (dist/automations-extension-2.yaml, the variant with conditions and     *)
(* `for` timers), as a state machine: the rule store built by parseConfig, *)
(* the pending-timer map, the timers scheduled in the runtime, the host's  *)
(* live entity state and the commands published by the latest step.        *)
(*                                                                         *)
(* Conventions.  An optional value (a property that may be undefined) is a *)
(* set with at most one element: {} is undefined, {v} is v.  A JavaScript  *)
(* object used as a map (update, from, to, a live state) is a function     *)
(* whose DOMAIN is the set of its own properties.  A configuration field   *)
(* that may be a single value or an array is a record [k, v] with k one of *)
(* "none" (field missing), "one" (scalar) or "many" (array).               *)
(***************************************************************************)
EXTENDS Integers, Sequences, FiniteSets, TLC

\* ------------------------------------------------------------------ bounds

\* Numeric attribute values range over 0..MaxVal.
MaxVal == 2
\* The runtime hands out at most MaxTimers timer handles in one behaviour.
MaxTimers == 2
\* runActions is checked on action lists of at most MaxActions actions.
MaxActions == 2
\* parseConfig is checked on configurations of at most MaxEntries entries.
MaxEntries == 2

\* MaxConditions: the longest condition list runActionsWithConditions is
\* applied to on its own.
MaxConditions == 2

\* MaxTemp: the temperatures of a sequence of events are 0..MaxTemp.
MaxTemp == 3

\* MaxEvents: the number of events of a sequence.
MaxEvents == 3

\* ------------------------------------------------------------- enumerations

ConfigPlatform == {"action", "state", "state_l1", "state_l2", "numeric_state"}

StateOnOff == {"ON", "OFF"}

ConfigService == {"toggle", "turn_on", "turn_off", "custom"}

\* The three values checkTrigger returns: true, false and null.
MATCH == "MATCH"
NEGATIVE_EDGE == "NEGATIVE_EDGE"
NO_MATCH == "NO_MATCH"

\* ------------------------------------------------------------------ helpers

None == [k |-> "none", v |-> <<>>]
One(x) == [k |-> "one", v |-> x]
Many(s) == [k |-> "many", v |-> s]

\* toArray(item): an array is returned as it is, anything else is wrapped.
toArray(item) == IF item.k = "many" THEN item.v ELSE <<item.v>>

\* The elements of a sequence, for Array.prototype.includes.
Range(s) == {s[i] : i \in 1..Len(s)}

\* obj.hasOwnProperty(attribute)
hasOwnProperty(obj, attribute) == attribute \in DOMAIN obj

\* obj[attribute] as an optional value: {} when the property is undefined.
Get(obj, attribute) == IF attribute \in DOMAIN obj THEN {obj[attribute]} ELSE {}

\* The map with no property, and the map with the one property a.
EmptyMap == [a \in {} |-> 0]
MapOf(a, opt) == [b \in {a : x \in opt} |-> CHOOSE x \in opt : TRUE]

\* ------------------------------------------------------- configuration data
\* A raw trigger.  `action`, `state`, `state_l1`, `state_l2` are the accepted
\* values of the platform of that name; `for` is 0 when not configured.
Trigger(platform, entity, attribute, accepted, above, below, for) ==
    [platform |-> platform, entity |-> entity, attribute |-> attribute,
     action   |-> IF platform = "action" THEN accepted ELSE None,
     state    |-> IF platform = "state" THEN accepted ELSE None,
     state_l1 |-> IF platform = "state_l1" THEN accepted ELSE None,
     state_l2 |-> IF platform = "state_l2" THEN accepted ELSE None,
     above |-> above, below |-> below, for |-> for]

Action(entity, service, data) ==
    [entity |-> entity, service |-> service, data |-> data]

Condition(entity, platform, attribute, state, above, below) ==
    [entity |-> entity, platform |-> platform, attribute |-> attribute,
     state |-> state, above |-> above, below |-> below]

Automation(trigger, action, condition) ==
    [trigger |-> trigger, action |-> action, condition |-> condition]

\* -------------------------------------------------------------- parseConfig

\* crypto.randomUUID(): a value no earlier call returned; `issued` counts the
\* earlier calls.
randomUUID(issued) == issued + 1

\* NewRule with one identifier per raw entry, shared by its replicas.
NewRuleSharedId(automation, actions, conditions, issued, raw) ==
    [id |-> raw, trigger |-> automation.trigger,
     action |-> actions, condition |-> conditions, raw |-> raw]

\* The Rule pushed for one entity of one raw entry.  `raw` is a history field:
\* the position of the raw entry the replica was made from.
NewRule(automation, actions, conditions, issued, raw) ==
    [id |-> randomUUID(issued), trigger |-> automation.trigger,
     action |-> actions, condition |-> conditions, raw |-> raw]

\* result[entityId].push(rule), creating the bucket when it is missing.
Push(result, entityId, rule) ==
    IF entityId \in DOMAIN result
    THEN [result EXCEPT ![entityId] = Append(@, rule)]
    ELSE [e \in DOMAIN result \cup {entityId} |->
            IF e = entityId THEN <<rule>> ELSE result[e]]

\* The loop over the trigger's entities; acc is [result, issued].
RECURSIVE PushReplicas(_, _, _, _, _, _, _)
PushReplicas(acc, entities, j, automation, actions, conditions, raw) ==
    IF j > Len(entities) THEN acc
    ELSE PushReplicas(
           [result |-> Push(acc.result, entities[j],
                            NewRule(automation, actions, conditions, acc.issued, raw)),
            issued |-> acc.issued + 1],
           entities, j + 1, automation, actions, conditions, raw)

\* The validation of one raw entry: TRUE when the reducer goes on to push.
\* The validation without the loop over the conditions.
ValidEntryNoConditions(automation) ==
    LET actions == toArray(automation.action)
    IN  /\ automation.trigger.platform \in ConfigPlatform
        /\ automation.trigger.entity.k # "none"
        /\ \A i \in 1..Len(actions) : actions[i].service \in ConfigService

ValidEntry(automation) ==
    LET actions    == toArray(automation.action)
        conditions == IF automation.condition.k = "none" THEN <<>>
                      ELSE toArray(automation.condition)
    IN  /\ automation.trigger.platform \in ConfigPlatform
        /\ automation.trigger.entity.k # "none"
        /\ \A i \in 1..Len(actions) : actions[i].service \in ConfigService
        /\ \A i \in 1..Len(conditions) :
               /\ conditions[i].entity # {}
               /\ conditions[i].platform \in ConfigPlatform

\* One step of the reducer over Object.values(automations).
ParseEntry(acc, automation, raw) ==
    LET actions    == toArray(automation.action)
        conditions == IF automation.condition.k = "none" THEN <<>>
                      ELSE toArray(automation.condition)
    IN  IF ~ValidEntry(automation) THEN acc
        ELSE PushReplicas(acc, toArray(automation.trigger.entity), 1,
                          automation, actions, conditions, raw)

RECURSIVE ParseFrom(_, _, _)
ParseFrom(acc, automations, i) ==
    IF i > Len(automations) THEN acc
    ELSE ParseFrom(ParseEntry(acc, automations[i], i), automations, i + 1)

parseConfig(automations) ==
    ParseFrom([result |-> EmptyMap, issued |-> 0], automations, 1).result

\* ------------------------------------------------------------- checkTrigger

\* trigger.attribute || dflt
AttributeOr(spec, dflt) ==
    IF spec.attribute = {} THEN dflt ELSE CHOOSE a \in spec.attribute : TRUE

\* The state-like case matching to[attribute] instead of update[attribute].
CheckStateLikeTo(attribute, accepted, update, from, to) ==
    IF \/ ~hasOwnProperty(update, attribute)
       \/ ~hasOwnProperty(from, attribute)
       \/ ~hasOwnProperty(to, attribute)
    THEN NO_MATCH
    ELSE IF from[attribute] = to[attribute] THEN NO_MATCH
    ELSE IF to[attribute] \in Range(toArray(accepted)) THEN MATCH
    ELSE NEGATIVE_EDGE

\* The three copies of the state-like case differ in the default attribute
\* and in the field that holds the accepted values.
CheckStateLike(attribute, accepted, update, from, to) ==
    IF \/ ~hasOwnProperty(update, attribute)
       \/ ~hasOwnProperty(from, attribute)
       \/ ~hasOwnProperty(to, attribute)
    THEN NO_MATCH
    ELSE IF from[attribute] = to[attribute] THEN NO_MATCH
    ELSE IF update[attribute] \in Range(toArray(accepted)) THEN MATCH
    ELSE NEGATIVE_EDGE

CheckAction(trigger, update) ==
    IF ~hasOwnProperty(update, "action") THEN NO_MATCH
    ELSE IF update["action"] \in Range(toArray(trigger.action)) THEN MATCH
    ELSE NEGATIVE_EDGE

\* The numeric case with `from > above` in place of `from >= above`.
CheckNumericStateStrict(trigger, update, from, to) ==
    LET attribute == AttributeOr(trigger, "undefined")
    IN  IF \/ ~hasOwnProperty(update, attribute)
           \/ ~hasOwnProperty(from, attribute)
           \/ ~hasOwnProperty(to, attribute)
        THEN NO_MATCH
        ELSE IF from[attribute] = to[attribute] THEN NO_MATCH
        ELSE IF \E above \in trigger.above : to[attribute] < above
             THEN NEGATIVE_EDGE
        ELSE IF \E above \in trigger.above : from[attribute] > above
             THEN NO_MATCH
        ELSE IF \E below \in trigger.below : to[attribute] > below
             THEN NEGATIVE_EDGE
        ELSE IF \E below \in trigger.below : from[attribute] <= below
             THEN NO_MATCH
        ELSE MATCH

\* checkTrigger's numeric_state case without the `from >= above` check: the
\* trigger follows the level of the value, not its crossing.
CheckNumericStateLevel(trigger, update, from, to) ==
    LET attribute == AttributeOr(trigger, "undefined")
    IN  IF \/ ~hasOwnProperty(update, attribute)
           \/ ~hasOwnProperty(from, attribute)
           \/ ~hasOwnProperty(to, attribute)
        THEN NO_MATCH
        ELSE IF from[attribute] = to[attribute] THEN NO_MATCH
        ELSE IF \E above \in trigger.above : to[attribute] < above
             THEN NEGATIVE_EDGE
        ELSE IF \E below \in trigger.below : to[attribute] > below
             THEN NEGATIVE_EDGE
        ELSE IF \E below \in trigger.below : from[attribute] <= below
             THEN NO_MATCH
        ELSE MATCH

CheckNumericState(trigger, update, from, to) ==
    LET attribute == AttributeOr(trigger, "undefined")
    IN  IF \/ ~hasOwnProperty(update, attribute)
           \/ ~hasOwnProperty(from, attribute)
           \/ ~hasOwnProperty(to, attribute)
        THEN NO_MATCH
        ELSE IF from[attribute] = to[attribute] THEN NO_MATCH
        ELSE IF \E above \in trigger.above : to[attribute] < above
             THEN NEGATIVE_EDGE
        ELSE IF \E above \in trigger.above : from[attribute] >= above
             THEN NO_MATCH
        ELSE IF \E below \in trigger.below : to[attribute] > below
             THEN NEGATIVE_EDGE
        ELSE IF \E below \in trigger.below : from[attribute] <= below
             THEN NO_MATCH
        ELSE MATCH

checkTrigger(configTrigger, update, from, to) ==
    CASE configTrigger.platform = "action" ->
           CheckAction(configTrigger, update)
      [] configTrigger.platform = "state" ->
           CheckStateLike(AttributeOr(configTrigger, "state"),
                          configTrigger.state, update, from, to)
      [] configTrigger.platform = "state_l1" ->
           CheckStateLike(AttributeOr(configTrigger, "state_l1"),
                          configTrigger.state_l1, update, from, to)
      [] configTrigger.platform = "state_l2" ->
           CheckStateLike(AttributeOr(configTrigger, "state_l2"),
                          configTrigger.state_l2, update, from, to)
      [] configTrigger.platform = "numeric_state" ->
           CheckNumericState(configTrigger, update, from, to)
      [] OTHER -> NEGATIVE_EDGE

\* ------------------------------------------------------------ collaborators

\* The names zigbee.resolveEntity resolves; any other name resolves to nothing.
Resolvable == {"X", "W", "Y"}

resolveEntity(name) == IF name \in Resolvable THEN {name} ELSE {}

\* A map with property a set to the optional value opt (deleted when {}).
SetAttr(obj, a, opt) ==
    [b \in (DOMAIN obj \ {a}) \cup {a : x \in opt} |->
        IF b = a THEN CHOOSE x \in opt : TRUE ELSE obj[b]]

\* ----------------------------------------------------------- checkCondition

\* checkCondition returning false where the entity cannot be resolved.
checkConditionUnknownFails(condition, live) ==
    LET entity == resolveEntity(CHOOSE e \in condition.entity : TRUE)
    IN  IF entity = {} THEN FALSE
        ELSE LET current == live[CHOOSE e \in entity : TRUE]
             IN CASE condition.platform \in {"state", "state_l1", "state_l2"} ->
                       Get(current, AttributeOr(condition, condition.platform))
                          = condition.state
                  [] condition.platform = "numeric_state" ->
                       LET currentState == Get(current, AttributeOr(condition, "undefined"))
                       IN  /\ ~\E above \in condition.above, c \in currentState : c < above
                           /\ ~\E below \in condition.below, c \in currentState : c > below
                  [] OTHER -> TRUE

checkCondition(condition, live) ==
    LET entity == resolveEntity(CHOOSE e \in condition.entity : TRUE)
    IN  IF entity = {} THEN TRUE
        ELSE LET current == live[CHOOSE e \in entity : TRUE]
             IN CASE condition.platform = "state" ->
                       Get(current, AttributeOr(condition, "state")) = condition.state
                  [] condition.platform = "state_l1" ->
                       Get(current, AttributeOr(condition, "state_l1")) = condition.state
                  [] condition.platform = "state_l2" ->
                       Get(current, AttributeOr(condition, "state_l2")) = condition.state
                  [] condition.platform = "numeric_state" ->
                       LET currentState == Get(current, AttributeOr(condition, "undefined"))
                       IN  /\ ~\E above \in condition.above, c \in currentState : c < above
                           /\ ~\E below \in condition.below, c \in currentState : c > below
                  [] OTHER -> TRUE

\* --------------------------------------------------------------- runActions

\* The switch with toggle testing for OFF where the code tests for ON.
NewStateToggleFromOff(service, currentState) ==
    CASE service = "turn_on" -> {"ON"}
      [] service = "turn_off" -> {"OFF"}
      [] service = "toggle" -> IF currentState = {"OFF"} THEN {"ON"} ELSE {"OFF"}
      [] OTHER -> {}

\* The switch on action.service: newState stays undefined for `custom`.
NewState(service, currentState) ==
    CASE service = "turn_on" -> {"ON"}
      [] service = "turn_off" -> {"OFF"}
      [] service = "toggle" -> IF currentState = {"ON"} THEN {"OFF"} ELSE {"ON"}
      [] OTHER -> {}

\* One mqtt.onMessage call.  topic stands for `${base}/${name}/set` and payload
\* for stringify(data), a canonical rendering of data.  rule, idx and timer are
\* history fields: the rule and action the call comes from, and the handle of
\* the timer whose expiry made it (0 when made while an event is processed).
Message(destination, data, rule, idx, timer) ==
    [topic |-> destination, payload |-> data, rule |-> rule, idx |-> idx,
     timer |-> timer]

\* The loop body without the `currentState === newState` check.
RunActionAlways(action, live, rule, idx, timer) ==
    LET destination == resolveEntity(action.entity)
    IN  IF destination = {} THEN <<>>
        ELSE LET name == CHOOSE d \in destination : TRUE
                 currentState == Get(live[name], "state")
                 newState == NewState(action.service, currentState)
             IN  IF action.service = "custom"
                 THEN <<Message(name, action.data, rule, idx, timer)>>
                 ELSE <<Message(name, [state |-> CHOOSE n \in newState : TRUE],
                                rule, idx, timer)>>

\* The loop body with the `currentState === newState` check made for custom
\* too, whose newState is undefined.
RunActionCustomChecked(action, live, rule, idx, timer) ==
    LET destination == resolveEntity(action.entity)
    IN  IF destination = {} THEN <<>>
        ELSE LET name == CHOOSE d \in destination : TRUE
                 currentState == Get(live[name], "state")
                 newState == NewState(action.service, currentState)
             IN  IF currentState = newState THEN <<>>
                 ELSE IF action.service = "custom"
                 THEN <<Message(name, action.data, rule, idx, timer)>>
                 ELSE <<Message(name, [state |-> CHOOSE n \in newState : TRUE],
                                rule, idx, timer)>>

\* The body of the loop of runActions for the idx-th action: the calls it makes.
RunAction(action, live, rule, idx, timer) ==
    LET destination == resolveEntity(action.entity)
    IN  IF destination = {} THEN <<>>
        ELSE LET name == CHOOSE d \in destination : TRUE
                 currentState == Get(live[name], "state")
                 newState == NewState(action.service, currentState)
             IN  IF action.service = "custom"
                 THEN <<Message(name, action.data, rule, idx, timer)>>
                 ELSE IF currentState = newState THEN <<>>
                 ELSE <<Message(name, [state |-> CHOOSE n \in newState : TRUE],
                                rule, idx, timer)>>

RECURSIVE RunActionsFrom(_, _, _, _, _)
RunActionsFrom(actions, i, live, rule, timer) ==
    IF i > Len(actions) THEN <<>>
    ELSE RunAction(actions[i], live, rule, i, timer)
           \o RunActionsFrom(actions, i + 1, live, rule, timer)

runActions(actions, live, rule, timer) == RunActionsFrom(actions, 1, live, rule, timer)

\* Every condition of the list holds of the live state.
Satisfied(conditions, live) ==
    \A i \in 1..Len(conditions) : checkCondition(conditions[i], live)

\* runActionsWithConditions going on to the next condition where the code
\* returns.
runActionsUnconditional(conditions, actions, live, rule, timer) ==
    runActions(actions, live, rule, timer)

runActionsWithConditions(conditions, actions, live, rule, timer) ==
    IF \E i \in 1..Len(conditions) : ~checkCondition(conditions[i], live)
    THEN <<>>
    ELSE runActions(actions, live, rule, timer)

\* ------------------------------------------------------------------- timers
\* The engine's mutable data while one handler runs:
\*   timeouts   this.timeouts, a map from rule id to timer handle
\*   timers     the timers scheduled in the runtime and not yet run or cleared:
\*              [h: handle, automation: the rule its callback closes over,
\*               left: seconds until it is due, met: whether every condition
\*               of the rule was satisfied when the timer was started (history)]
\*   handles    the number of handles setTimeout has returned
\*   out        the mqtt.onMessage calls made so far by the handler
\*   results    per rule handled (history): the trigger result, whether the
\*              rule id had an entry in this.timeouts when it was handled, the
\*              handle and time left of the rule's timers at that moment, and
\*              whether the event left the trigger's matching region
\*   negated    the handles that were in this.timeouts when a trigger result
\*              of false arrived for their rule (history)

\* delete obj[key]
Delete(obj, key) == [k \in DOMAIN obj \ {key} |-> obj[k]]

\* obj[key] = value
Assign(obj, key, value) ==
    [k \in DOMAIN obj \cup {key} |-> IF k = key THEN value ELSE obj[k]]

clearTimeout(timers, h) == {t \in timers : t.h # h}

\* stopTimeout without the clearTimeout call.
stopTimeoutKeepsTimer(eng, automationId) ==
    IF automationId \in DOMAIN eng.timeouts
    THEN [eng EXCEPT !.timeouts = Delete(@, automationId)]
    ELSE eng

stopTimeout(eng, automationId) ==
    IF automationId \in DOMAIN eng.timeouts
    THEN [eng EXCEPT !.timers = clearTimeout(@, eng.timeouts[automationId]),
                     !.timeouts = Delete(@, automationId)]
    ELSE eng

startTimeout(eng, automation, time) ==
    LET h == eng.handles + 1
    IN  [eng EXCEPT !.handles = h,
                    !.timers = @ \cup {[h |-> h, automation |-> automation,
                                        left |-> time]},
                    !.timeouts = Assign(@, automation.id, h)]

\* The callback without its `delete this.timeouts[automation.id]`.
TimeoutCallbackKeepsEntry(eng, t, live) ==
    [eng EXCEPT !.timers = @ \ {t},
                !.out = @ \o runActionsWithConditions(t.automation.condition,
                               t.automation.action, live, t.automation.id, t.h)]

\* The callback running the actions when the conditions held as the timer was
\* started, whatever the live state is now.
TimeoutCallbackConditionsAtStart(eng, t, live) ==
    [eng EXCEPT !.timers = @ \ {t},
                !.timeouts = Delete(@, t.automation.id),
                !.out = @ \o (IF t.met
                              THEN runActions(t.automation.action, live,
                                              t.automation.id, t.h)
                              ELSE <<>>)]

\* The callback startTimeout passes to setTimeout, run for the due timer t.
TimeoutCallback(eng, t, live) ==
    [eng EXCEPT !.timers = @ \ {t},
                !.timeouts = Delete(@, t.automation.id),
                !.out = @ \o runActionsWithConditions(t.automation.condition,
                               t.automation.action, live, t.automation.id, t.h)]

\* The engine after startTimeout, with the history field `met` of the timer
\* just started.
NoteStart(eng, automation, live) ==
    [eng EXCEPT !.timers =
        {IF t.h # eng.handles THEN t
         ELSE [h |-> t.h, automation |-> t.automation, left |-> t.left,
               met |-> Satisfied(automation.condition, live)] : t \in @}]

\* runAutomationIfMatches without the `if (timeout) return` check.
StartAutomationRestarts(eng, automation, live) ==
    IF automation.trigger.for # 0
    THEN NoteStart(startTimeout(eng, automation, automation.trigger.for),
                   automation, live)
    ELSE [eng EXCEPT !.out = @ \o runActionsWithConditions(automation.condition,
                                    automation.action, live, automation.id, 0)]

\* runAutomationIfMatches calling startTimeout whether or not the trigger has
\* a `for`.
StartAutomationAlwaysTimer(eng, automation, live) ==
    IF automation.id \in DOMAIN eng.timeouts THEN eng
    ELSE NoteStart(startTimeout(eng, automation, automation.trigger.for),
                   automation, live)

\* The part of runAutomationIfMatches after a trigger result of true.
StartAutomation(eng, automation, live) ==
    IF automation.id \in DOMAIN eng.timeouts THEN eng
    ELSE IF automation.trigger.for # 0
         THEN NoteStart(startTimeout(eng, automation, automation.trigger.for),
                        automation, live)
    ELSE [eng EXCEPT !.out = @ \o runActionsWithConditions(automation.condition,
                                    automation.action, live, automation.id, 0)]

\* The event as the trigger's matching region sees it (history): "left" when
\* from and to carry the trigger's attribute with different values and the
\* to-value is outside the region (numeric: below `above` or above `below`;
\* state-like: not an accepted value) and the update carries the to-value,
\* "unreported" when the update does not carry it, "no" otherwise.
Leaves(trigger, update, from, to) ==
    LET attribute == IF trigger.platform = "numeric_state"
                     THEN AttributeOr(trigger, "undefined")
                     ELSE AttributeOr(trigger, trigger.platform)
        outside ==
          /\ hasOwnProperty(from, attribute)
          /\ hasOwnProperty(to, attribute)
          /\ from[attribute] # to[attribute]
          /\ CASE trigger.platform = "numeric_state" ->
                    \/ \E above \in trigger.above : to[attribute] < above
                    \/ \E below \in trigger.below : to[attribute] > below
                [] trigger.platform \in {"state", "state_l1", "state_l2"} ->
                    to[attribute] \notin Range(toArray(trigger[trigger.platform]))
                [] OTHER -> FALSE
    IN  IF ~outside THEN "no"
        ELSE IF Get(update, attribute) = Get(to, attribute) THEN "left"
        ELSE "unreported"

\* The engine with the handling of one rule noted in the history fields.
Note(eng, automation, triggerResult, update, from, to) ==
    LET pending == automation.id \in DOMAIN eng.timeouts
    IN  [eng EXCEPT
           !.results = Append(@,
              [result |-> triggerResult, pending |-> pending,
               was |-> {[h |-> t.h, left |-> t.left] :
                          t \in {x \in eng.timers :
                                   x.automation.id = automation.id}},
               leaves |-> Leaves(automation.trigger, update, from, to)]),
           !.negated = IF pending /\ triggerResult = NEGATIVE_EDGE
                       THEN @ \cup {eng.timeouts[automation.id]} ELSE @]

\* runAutomationIfMatches returning on a trigger result of false without the
\* stopTimeout call.
runAutomationIfMatchesKeepsTimer(eng, automation, update, from, to, live) ==
    LET triggerResult == checkTrigger(automation.trigger, update, from, to)
        noted == Note(eng, automation, triggerResult, update, from, to)
    IN  IF triggerResult \in {NEGATIVE_EDGE, NO_MATCH} THEN noted
        ELSE StartAutomation(noted, automation, live)

\* runAutomationIfMatches testing `!triggerResult` where the code tests
\* `triggerResult === false`: null stops the timer too.
runAutomationIfMatchesNullStops(eng, automation, update, from, to, live) ==
    LET triggerResult == checkTrigger(automation.trigger, update, from, to)
        noted == Note(eng, automation, triggerResult, update, from, to)
    IN  IF triggerResult \in {NEGATIVE_EDGE, NO_MATCH}
        THEN stopTimeout(noted, automation.id)
        ELSE StartAutomation(noted, automation, live)

runAutomationIfMatches(eng, automation, update, from, to, live) ==
    LET triggerResult == checkTrigger(automation.trigger, update, from, to)
        noted == Note(eng, automation, triggerResult, update, from, to)
    IN  IF triggerResult = NEGATIVE_EDGE THEN stopTimeout(noted, automation.id)
        ELSE IF triggerResult = NO_MATCH THEN noted
        ELSE StartAutomation(noted, automation, live)

\* The loop of findAndRun going through the bucket from its last rule to its
\* first.
RECURSIVE RunFromLast(_, _, _, _, _, _, _)
RunFromLast(eng, bucket, i, update, from, to, live) ==
    IF i > Len(bucket) THEN eng
    ELSE RunFromLast(runAutomationIfMatches(eng, bucket[Len(bucket) + 1 - i],
                                            update, from, to, live),
                     bucket, i + 1, update, from, to, live)

RECURSIVE RunFrom(_, _, _, _, _, _, _)
RunFrom(eng, bucket, i, update, from, to, live) ==
    IF i > Len(bucket) THEN eng
    ELSE RunFrom(runAutomationIfMatches(eng, bucket[i], update, from, to, live),
                 bucket, i + 1, update, from, to, live)

findAndRun(eng, store, entityId, update, from, to, live) ==
    IF entityId \notin DOMAIN store THEN eng
    ELSE RunFrom(eng, store[entityId], 1, update, from, to, live)

\* ----------------------------------------------------------- configurations
\* The raw entries the checked configurations are made of.

\* state trigger on X with `for`, one action, no condition
DelayedOn ==
    Automation(Trigger("state", One("X"), {}, Many(<<"ON">>), {}, {}, 2),
               One(Action("Y", "turn_on", <<>>)), None)

\* action trigger on X with `for`, guarded by a state condition
ActionDelayed ==
    Automation(Trigger("action", One("X"), {}, One("single"), {}, {}, 1),
               One(Action("Y", "toggle", <<>>)),
               One(Condition({"Y"}, "state", {}, {"OFF"}, {}, {})))

\* numeric trigger with `above` only; the second action's target is unknown
TempAbove ==
    Automation(Trigger("numeric_state", One("X"), {"temperature"}, None, {1}, {}, 0),
               Many(<<Action("Y", "turn_off", <<>>), Action("Z", "turn_on", <<>>)>>),
               None)

\* numeric trigger with `above` and `below`, a custom action
TempRange ==
    Automation(Trigger("numeric_state", One("X"), {"temperature"}, None, {1}, {2}, 0),
               One(Action("Y", "custom", [state |-> "TOGGLE"])), None)

\* numeric trigger with `below` only and `for`, guarded by a numeric and a
\* state condition
TempBelow ==
    Automation(Trigger("numeric_state", One("W"), {"temperature"}, None, {}, {1}, 1),
               One(Action("Y", "turn_on", <<>>)),
               Many(<<Condition({"Y"}, "numeric_state", {"temperature"}, {}, {2}, {}),
                      Condition({"Y"}, "state", {}, {"OFF"}, {}, {})>>))

\* numeric trigger with a higher `above`, two actions, guarded by a state
\* condition
TempHigh ==
    Automation(Trigger("numeric_state", One("X"), {"temperature"}, None, {2}, {}, 0),
               Many(<<Action("Y", "toggle", <<>>),
                      Action("Y", "custom", [state |-> "TOGGLE"])>>),
               One(Condition({"Y"}, "state", {}, {"ON"}, {}, {})))

\* state_l1 trigger naming two entities, with `for`
BothSwitches ==
    Automation(Trigger("state_l1", Many(<<"X", "W">>), {}, One("ON"), {}, {}, 1),
               One(Action("Y", "turn_off", <<>>)), None)

\* state_l2 trigger on a configured attribute; the condition's entity is unknown
SecondChannel ==
    Automation(Trigger("state_l2", One("W"), {"state"}, Many(<<"ON", "OFF">>), {}, {}, 0),
               One(Action("Y", "toggle", <<>>)),
               One(Condition({"Z"}, "state_l1", {}, {"ON"}, {}, {})))

\* entries parseConfig rejects
BadPlatform ==
    Automation(Trigger("time", One("X"), {}, None, {}, {}, 0),
               One(Action("Y", "turn_on", <<>>)), None)

NoEntity ==
    Automation(Trigger("state", None, {}, One("ON"), {}, {}, 0),
               One(Action("Y", "turn_on", <<>>)), None)

BadService ==
    Automation(Trigger("state", Many(<<"X", "W">>), {}, One("OFF"), {}, {}, 0),
               Many(<<Action("Y", "turn_on", <<>>), Action("Y", "blink", <<>>)>>), None)

BadCondition ==
    Automation(Trigger("state", Many(<<"W", "X">>), {}, One("OFF"), {}, {}, 0),
               One(Action("Y", "turn_off", <<>>)),
               Many(<<Condition({"Y"}, "state", {}, {"ON"}, {}, {}),
                      Condition({}, "state", {}, {"ON"}, {}, {})>>))

BadGuard ==
    Automation(Trigger("state", Many(<<"X", "W">>), {}, One("ON"), {}, {}, 0),
               One(Action("Y", "turn_on", <<>>)),
               Many(<<Condition({"Y"}, "state", {}, {"ON"}, {}, {}),
                      Condition({"Y"}, "time", {}, {}, {}, {})>>))

\* settings.get().automations, in the order Object.values yields the entries.
Configs ==
    { <<DelayedOn, TempAbove, TempHigh>>,
      <<ActionDelayed, BadService, BothSwitches>>,
      <<TempRange, NoEntity, TempBelow>>,
      <<BadPlatform, SecondChannel, BadCondition, DelayedOn>> }

\* -------------------------------------------------------------------- state

VARIABLES
    settings,     \* the raw configuration the engine was constructed with
    automations,  \* this.automations: entity id -> sequence of Rules
    timeouts,     \* this.timeouts: rule id -> timer handle
    timers,       \* the timers scheduled in the runtime
    handles,      \* the number of timer handles handed out
    state,        \* the host's live state: resolvable entity -> map
    listening,    \* the event bus holds the engine's state-change listener
    stopped,      \* stop() has been invoked
    published,    \* the mqtt.onMessage calls of the latest step, in order
    results,      \* the trigger results of the latest step, one per rule handled
    lastOp,       \* the latest step: its kind, the event's entity, the handle
                  \* of the timer run and that timer
    negated,      \* handles pending when their rule's trigger result was false
    input,        \* the arguments of a function checked on its own
    output        \* its result as an optional value: {} until it is applied

engine == <<settings, automations, timeouts, timers, handles, state, listening,
            stopped, published, results, lastOp, negated>>

vars == <<engine, input, output>>

\* fired is the timer run, <<>> when the step runs no timer.
Op(kind, entity, timer, fired) ==
    [kind |-> kind, entity |-> entity, timer |-> timer, fired |-> fired]

\* All Rules of the store, and the Rule with a given id.
Rules(store) == UNION {Range(store[e]) : e \in DOMAIN store}

\* The attribute a trigger reads from update, from and to.
TriggerAttribute(trigger) ==
    CASE trigger.platform = "action" -> "action"
      [] trigger.platform = "numeric_state" -> AttributeOr(trigger, "undefined")
      [] OTHER -> AttributeOr(trigger, trigger.platform)

\* The values an attribute of an event takes.
ValuesOf(attribute) ==
    CASE attribute = "action" -> {"single", "double"}
      [] attribute = "temperature" -> 0..MaxVal
      [] OTHER -> StateOnOff

\* The attributes some rule watches: an event's other properties are read by
\* no rule.
WatchedAttributes(store) == {TriggerAttribute(r.trigger) : r \in Rules(store)}

\* The (entity, attribute) pairs of the live state some condition or action
\* of the store reads.
LiveReads(store) ==
    UNION {
      {<<r.action[i].entity, "state">> : i \in 1..Len(r.action)}
        \cup {<<CHOOSE e \in r.condition[i].entity : TRUE,
                IF r.condition[i].platform = "numeric_state"
                THEN AttributeOr(r.condition[i], "undefined")
                ELSE AttributeOr(r.condition[i], r.condition[i].platform)>> :
              i \in 1..Len(r.condition)}
      : r \in Rules(store)}

Engine ==
    [timeouts |-> timeouts, timers |-> timers, handles |-> handles,
     out |-> <<>>, results |-> <<>>, negated |-> negated]

\* --------------------------------------------------------------------- Init
\* The state the constructor leaves: the rule store parsed, no timer.

Constructed(config) ==
    /\ settings = config
    /\ automations = parseConfig(settings)
    /\ timeouts = EmptyMap
    /\ timers = {}
    /\ handles = 0
    /\ state = [e \in Resolvable |-> EmptyMap]
    /\ listening = FALSE
    /\ stopped = FALSE
    /\ published = <<>>
    /\ results = <<>>
    /\ lastOp = Op("constructor", "", 0, <<>>)
    /\ negated = {}

Init ==
    /\ \E config \in Configs : Constructed(config)
    /\ input = <<>>
    /\ output = {}

\* ------------------------------------------------------------------ actions

\* start(): subscribes findAndRun to the event bus.
Start ==
    /\ ~listening /\ ~stopped
    /\ listening' = TRUE
    /\ published' = <<>>
    /\ results' = <<>>
    /\ lastOp' = Op("start", "", 0, <<>>)
    /\ UNCHANGED <<settings, automations, timeouts, timers, handles,
                 state, stopped, input, output, negated>>

\* stop(): removes the listener; nothing else.
Stop ==
    /\ listening
    /\ listening' = FALSE
    /\ stopped' = TRUE
    /\ published' = <<>>
    /\ results' = <<>>
    /\ lastOp' = Op("stop", "", 0, <<>>)
    /\ UNCHANGED <<settings, automations, timeouts, timers,
                 handles, state, input, output, negated>>

\* The listener start() registers, called with one state change.
Deliver(entityId, update, from, to) ==
    /\ listening
    /\ \E eng \in {findAndRun(Engine, automations, entityId, update, from, to, state)} :
           /\ eng.handles <= MaxTimers
           /\ timeouts' = eng.timeouts
           /\ timers' = eng.timers
           /\ handles' = eng.handles
           /\ published' = eng.out
           /\ results' = eng.results
           /\ negated' = eng.negated
    /\ lastOp' = Op("stateChange", entityId, 0, <<>>)
    /\ UNCHANGED <<settings, automations, state, listening, stopped>>

\* The event bus delivers one state change to the listener.
StateChange(entityId, update, from, to) ==
    /\ Deliver(entityId, update, from, to)
    /\ UNCHANGED <<input, output>>

\* A due timer's callback runs.
Timeout(t) ==
    /\ t \in timers
    /\ t.left = 0
    /\ \E eng \in {TimeoutCallback(Engine, t, state)} :
           /\ timeouts' = eng.timeouts
           /\ timers' = eng.timers
           /\ published' = eng.out
    /\ results' = <<>>
    /\ lastOp' = Op("timeout", "", t.h, t)
    /\ UNCHANGED <<settings, automations, handles, state,
                 listening, stopped, input, output, negated>>

\* One second passes; a due timer runs before the clock goes on.
Tick ==
    /\ timers # {}
    /\ \A t \in timers : t.left > 0
    /\ timers' = {[t EXCEPT !.left = @ - 1] : t \in timers}
    /\ published' = <<>>
    /\ results' = <<>>
    /\ lastOp' = Op("tick", "", 0, <<>>)
    /\ UNCHANGED <<settings, automations, timeouts, handles, state,
                 listening, stopped, input, output, negated>>

\* The host records a new value of one attribute of an entity's live state.
HostState(entity, attribute, value) ==
    /\ entity \in Resolvable
    /\ Get(state[entity], attribute) # value
    /\ state' = [state EXCEPT ![entity] = SetAttr(@, attribute, value)]
    /\ published' = <<>>
    /\ results' = <<>>
    /\ lastOp' = Op("state", entity, 0, <<>>)
    /\ UNCHANGED <<settings, automations, timeouts, timers, handles,
                 listening, stopped, input, output, negated>>

\* An optional value of an attribute.
Optional(attribute) == {{}} \cup {{v} : v \in ValuesOf(attribute)}

Next ==
    \/ Start
    \/ Stop
    \/ \E entityId \in DOMAIN automations \cup {"Y"},
          attribute \in WatchedAttributes(automations) :
         \E u, f, t \in Optional(attribute) :
            StateChange(entityId, MapOf(attribute, u), MapOf(attribute, f),
                        MapOf(attribute, t))
    \/ \E t \in timers : Timeout(t)
    \/ Tick
    \/ \E read \in LiveReads(automations) :
         \E value \in Optional(read[2]) : HostState(read[1], read[2], value)

Spec == Init /\ [][Next]_vars

\* ------------------------------------------------- checkTrigger on its own
\* checkTrigger reads nothing but its arguments: it is applied to every
\* trigger and event below.

\* Sequences over S of length at most n.
SeqUpTo(S, n) == UNION {[1..k -> S] : k \in 0..n}

ProbeTriggers ==
    {Trigger("action", One("X"), {}, accepted, {}, {}, 0) :
        accepted \in {One("single"), Many(<<"single", "double">>), Many(<<>>)}}
    \cup {Trigger(platform, One("X"), attribute, accepted, {}, {}, 0) :
            platform \in {"state", "state_l1", "state_l2"},
            attribute \in {{}, {"state"}},
            accepted \in {One("ON"), Many(<<"OFF">>), Many(<<"ON", "OFF">>)}}
    \cup {Trigger("numeric_state", One("X"), {"temperature"}, None, above, below, 0) :
            above \in Optional("temperature"), below \in Optional("temperature")}

EventAttributes == {"action", "state", "state_l1", "state_l2", "temperature"}

InitTrigger ==
    /\ Constructed(<<>>)
    /\ \E trigger \in ProbeTriggers, attribute \in EventAttributes :
         \E u, f, t \in Optional(attribute) :
            input = [trigger |-> trigger, update |-> MapOf(attribute, u),
                     from |-> MapOf(attribute, f), to |-> MapOf(attribute, t)]
    /\ output = {}

ApplyCheckTrigger ==
    /\ output = {}
    /\ output' = {checkTrigger(input.trigger, input.update, input.from, input.to)}
    /\ UNCHANGED <<engine, input>>

NextTrigger == ApplyCheckTrigger

SpecTrigger == InitTrigger /\ [][NextTrigger]_vars

\* --------------------------------------------------- runActions on its own
\* runActions reads its argument and the live state: it is applied to every
\* action list of at most MaxActions actions and every live state below.

ProbeActions ==
    {Action(entity, service, IF service = "custom" THEN [state |-> "TOGGLE"] ELSE <<>>) :
        entity \in {"X", "Y", "Z"}, service \in ConfigService}

\* A live `state` is ON, OFF, undefined or some other value.
LiveStates == Optional("state") \cup {{"TOGGLE"}}

InitActions ==
    /\ Constructed(<<>>)
    /\ \E actions \in SeqUpTo(ProbeActions, MaxActions), x, y \in LiveStates :
          input = [actions |-> actions,
                   live |-> [e \in Resolvable |->
                               IF e = "X" THEN MapOf("state", x)
                               ELSE IF e = "Y" THEN MapOf("state", y)
                               ELSE EmptyMap]]
    /\ output = {}

ApplyRunActions ==
    /\ output = {}
    /\ output' = {runActions(input.actions, input.live, 1, 0)}
    /\ UNCHANGED <<engine, input>>

NextActions == ApplyRunActions

SpecActions == InitActions /\ [][NextActions]_vars

\* -------------------------------------------------- parseConfig on its own
\* parseConfig is applied to every configuration of at most MaxEntries of the
\* raw entries above.

RawEntries ==
    {DelayedOn, ActionDelayed, TempAbove, TempRange, TempBelow, TempHigh,
     BothSwitches, SecondChannel, BadGuard, BadPlatform, NoEntity, BadService, BadCondition}

InitParse ==
    /\ Constructed(<<>>)
    /\ input \in SeqUpTo(RawEntries, MaxEntries)
    /\ output = {}

ApplyParseConfig ==
    /\ output = {}
    /\ output' = {parseConfig(input)}
    /\ UNCHANGED <<engine, input>>

NextParse == ApplyParseConfig

SpecParse == InitParse /\ [][NextParse]_vars

\* ------------------------------------- runActionsWithConditions on its own
\* runActionsWithConditions reads its arguments and the live state: it is
\* applied to every list of at most MaxConditions of the conditions below, on
\* the resolvable Y and the unresolvable Z, and to every live state of Y.

ProbeConditions ==
    {Condition({entity}, "state", {}, {expected}, {}, {}) :
        entity \in {"Y", "Z"}, expected \in StateOnOff}
    \cup {Condition({entity}, "numeric_state", {"temperature"}, {}, above, below) :
            entity \in {"Y", "Z"}, above \in {{}, {1}}, below \in {{}, {1}}}
    \cup {Condition({entity}, "action", {}, {}, {}, {}) : entity \in {"Y", "Z"}}

InitConditions ==
    /\ Constructed(<<>>)
    /\ \E conditions \in SeqUpTo(ProbeConditions, MaxConditions),
          service \in {"toggle", "turn_on"},
          y \in Optional("state"), t \in Optional("temperature") :
          input = [conditions |-> conditions,
                   actions |-> <<Action("Y", service, <<>>)>>,
                   live |-> [e \in Resolvable |->
                               IF e = "Y"
                               THEN SetAttr(MapOf("state", y), "temperature", t)
                               ELSE EmptyMap]]
    /\ output = {}

ApplyRunActionsWithConditions ==
    /\ output = {}
    /\ output' = {runActionsWithConditions(input.conditions, input.actions,
                                           input.live, 1, 0)}
    /\ UNCHANGED <<engine, input>>

NextConditions == ApplyRunActionsWithConditions

SpecConditions == InitConditions /\ [][NextConditions]_vars

\* ------------------------------------------------- a sequence of events
\* One numeric rule without `for` and a sequence of temperature reports of
\* its entity: each event's `from` is the `to` of the event before it, the
\* first event's `from` is any temperature or none, and the update is the
\* new temperature.  The output is, per event delivered, the trigger result
\* and the commands published.

Thermostat(above) ==
    <<Automation(Trigger("numeric_state", One("X"), {"temperature"}, None,
                         {above}, {}, 0),
                 One(Action("Y", "toggle", <<>>)), None)>>

InitSequence ==
    /\ \E above \in 0..MaxTemp : Constructed(Thermostat(above))
    /\ \E first \in {{}} \cup {{v} : v \in 0..MaxTemp},
          reports \in [1..MaxEvents -> 0..MaxTemp] :
          input = [from |-> first, to |-> reports]
    /\ output = <<>>

DeliverNext ==
    /\ Len(output) < Len(input.to)
    /\ LET k    == Len(output) + 1
           from == MapOf("temperature",
                         IF k = 1 THEN input.from ELSE {input.to[k - 1]})
           to   == MapOf("temperature", {input.to[k]})
       IN  /\ Deliver("X", to, from, to)
           /\ output' = Append(output, [result |-> results'[1].result,
                                        published |-> published'])
    /\ UNCHANGED input

NextSequence ==
    \/ Start
    \/ DeliverNext

SpecSequence == InitSequence /\ [][NextSequence]_vars

\* ---------------------------------------------------- the timer-less variant
\* src/src/automations-extension.ts: three trigger platforms, three services,
\* no conditions, no `for`, no rule id.  Its operators carry the prefix Ts.
\* Both variants are constructed from one configuration and get the same
\* events from the same host; output holds the timer-less variant's rule
\* store and the mqtt.onMessage calls of its latest event.

TsConfigPlatform == {"action", "state", "numeric_state"}

TsConfigService == {"toggle", "turn_on", "turn_off"}

\* The Rule pushed for one entity of one raw entry.
TsNewRule(automation, actions) ==
    [trigger |-> automation.trigger, action |-> actions]

\* The loop over the trigger's entities.
RECURSIVE TsPushReplicas(_, _, _, _, _)
TsPushReplicas(result, entities, j, automation, actions) ==
    IF j > Len(entities) THEN result
    ELSE TsPushReplicas(Push(result, entities[j], TsNewRule(automation, actions)),
                        entities, j + 1, automation, actions)

\* One step of the reducer over Object.values(automations).
TsParseEntry(result, automation) ==
    LET actions == toArray(automation.action)
    IN  IF automation.trigger.platform \notin TsConfigPlatform THEN result
        ELSE IF automation.trigger.entity.k = "none" THEN result
        ELSE IF \E i \in 1..Len(actions) : actions[i].service \notin TsConfigService
             THEN result
        ELSE TsPushReplicas(result, toArray(automation.trigger.entity), 1,
                            automation, actions)

RECURSIVE TsParseFrom(_, _, _)
TsParseFrom(result, config, i) ==
    IF i > Len(config) THEN result
    ELSE TsParseFrom(TsParseEntry(result, config[i]), config, i + 1)

\* parseConfig(automations), config being Object.values(automations).
TsParseConfig(config) == TsParseFrom(EmptyMap, config, 1)

\* One mqtt.onMessage call: its topic and its payload.
TsMessage(destination, data) == [topic |-> destination, payload |-> data]

\* The switch on action.service.
TsNewState(service, currentState) ==
    CASE service = "turn_on" -> {"ON"}
      [] service = "turn_off" -> {"OFF"}
      [] service = "toggle" -> IF currentState = {"ON"} THEN {"OFF"} ELSE {"ON"}
      [] OTHER -> {}

\* The body of the loop of runActions: the calls it makes.
TsRunAction(action, live) ==
    LET destination == resolveEntity(action.entity)
    IN  IF destination = {} THEN <<>>
        ELSE LET name == CHOOSE d \in destination : TRUE
                 currentState == Get(live[name], "state")
                 newState == TsNewState(action.service, currentState)
             IN  IF currentState = newState THEN <<>>
                 ELSE <<TsMessage(name, [state |-> CHOOSE n \in newState : TRUE])>>

RECURSIVE TsRunActionsFrom(_, _, _)
TsRunActionsFrom(actions, i, live) ==
    IF i > Len(actions) THEN <<>>
    ELSE TsRunAction(actions[i], live) \o TsRunActionsFrom(actions, i + 1, live)

TsRunActions(actions, live) == TsRunActionsFrom(actions, 1, live)

\* runAutomationIfMatches without the `from.state === to.state` check of the
\* state platform.
TsRunAutomationIfMatchesAnyUpdate(automation, update, from, to, live) ==
    LET trigger == automation.trigger
    IN  CASE trigger.platform = "action" ->
               IF ~hasOwnProperty(update, "action") THEN <<>>
               ELSE IF update["action"] \notin Range(toArray(trigger.action))
                    THEN <<>>
               ELSE TsRunActions(automation.action, live)
          [] trigger.platform = "state" ->
               IF \/ ~hasOwnProperty(update, "state")
                  \/ ~hasOwnProperty(from, "state")
                  \/ ~hasOwnProperty(to, "state")
               THEN <<>>
               ELSE IF update["state"] \notin Range(toArray(trigger.state))
                    THEN <<>>
               ELSE TsRunActions(automation.action, live)
          [] trigger.platform = "numeric_state" ->
               LET attribute == AttributeOr(trigger, "undefined")
               IN  IF \/ ~hasOwnProperty(update, attribute)
                      \/ ~hasOwnProperty(from, attribute)
                      \/ ~hasOwnProperty(to, attribute)
                   THEN <<>>
                   ELSE IF from[attribute] = to[attribute] THEN <<>>
                   ELSE IF \E above \in trigger.above :
                              from[attribute] >= above \/ to[attribute] < above
                        THEN <<>>
                   ELSE IF \E below \in trigger.below :
                              from[attribute] <= below \/ to[attribute] > below
                        THEN <<>>
                   ELSE TsRunActions(automation.action, live)
          [] OTHER -> <<>>

\* runAutomationIfMatches: the calls it makes.
TsRunAutomationIfMatches(automation, update, from, to, live) ==
    LET trigger == automation.trigger
    IN  CASE trigger.platform = "action" ->
               IF ~hasOwnProperty(update, "action") THEN <<>>
               ELSE IF update["action"] \notin Range(toArray(trigger.action))
                    THEN <<>>
               ELSE TsRunActions(automation.action, live)
          [] trigger.platform = "state" ->
               IF \/ ~hasOwnProperty(update, "state")
                  \/ ~hasOwnProperty(from, "state")
                  \/ ~hasOwnProperty(to, "state")
               THEN <<>>
               ELSE IF from["state"] = to["state"] THEN <<>>
               ELSE IF update["state"] \notin Range(toArray(trigger.state))
                    THEN <<>>
               ELSE TsRunActions(automation.action, live)
          [] trigger.platform = "numeric_state" ->
               LET attribute == AttributeOr(trigger, "undefined")
               IN  IF \/ ~hasOwnProperty(update, attribute)
                      \/ ~hasOwnProperty(from, attribute)
                      \/ ~hasOwnProperty(to, attribute)
                   THEN <<>>
                   ELSE IF from[attribute] = to[attribute] THEN <<>>
                   ELSE IF \E above \in trigger.above :
                              from[attribute] >= above \/ to[attribute] < above
                        THEN <<>>
                   ELSE IF \E below \in trigger.below :
                              from[attribute] <= below \/ to[attribute] > below
                        THEN <<>>
                   ELSE TsRunActions(automation.action, live)
          [] OTHER -> <<>>

RECURSIVE TsRunFrom(_, _, _, _, _, _)
TsRunFrom(bucket, i, update, from, to, live) ==
    IF i > Len(bucket) THEN <<>>
    ELSE TsRunAutomationIfMatches(bucket[i], update, from, to, live)
           \o TsRunFrom(bucket, i + 1, update, from, to, live)

TsFindAndRun(store, entityId, update, from, to, live) ==
    IF entityId \notin DOMAIN store THEN <<>>
    ELSE TsRunFrom(store[entityId], 1, update, from, to, live)

\* Raw entries both variants accept: action, state and numeric_state
\* triggers, the three services, no `for`, no condition.

Pressed ==
    Automation(Trigger("action", One("X"), {}, Many(<<"single", "double">>), {}, {}, 0),
               One(Action("Y", "toggle", <<>>)), None)

Switched ==
    Automation(Trigger("state", Many(<<"X", "W">>), {}, One("ON"), {}, {}, 0),
               Many(<<Action("Y", "turn_on", <<>>), Action("Z", "turn_off", <<>>)>>),
               None)

TempDrop ==
    Automation(Trigger("numeric_state", One("X"), {"temperature"}, None, {}, {1}, 0),
               One(Action("Y", "toggle", <<>>)), None)

TempBand ==
    Automation(Trigger("numeric_state", One("W"), {"temperature"}, None, {1}, {2}, 0),
               One(Action("Y", "turn_off", <<>>)), None)

TempChange ==
    Automation(Trigger("numeric_state", One("W"), {"temperature"}, None, {}, {}, 0),
               Many(<<Action("Y", "turn_on", <<>>), Action("Y", "toggle", <<>>)>>),
               None)

CommonConfigs ==
    { <<Pressed, Switched, TempAbove>>,
      <<TempDrop, NoEntity, TempBand, TempChange, TempAbove>> }

InitVariants ==
    /\ \E config \in CommonConfigs : Constructed(config)
    /\ input = <<>>
    /\ output = [automations |-> TsParseConfig(settings), published |-> <<>>]

\* The event bus delivers one state change to the listeners of both variants.
BothStateChange(entityId, update, from, to) ==
    /\ Deliver(entityId, update, from, to)
    /\ output' = [output EXCEPT !.published =
                     TsFindAndRun(output.automations, entityId, update, from,
                                  to, state)]
    /\ UNCHANGED input

NextVariants ==
    \/ Start
    \/ Stop
    \/ \E entityId \in DOMAIN automations \cup {"Y"},
          attribute \in WatchedAttributes(automations) :
         \E u, f, t \in Optional(attribute) :
            BothStateChange(entityId, MapOf(attribute, u), MapOf(attribute, f),
                            MapOf(attribute, t))
    \/ \E read \in LiveReads(automations) :
         \E value \in Optional(read[2]) : HostState(read[1], read[2], value)

SpecVariants == InitVariants /\ [][NextVariants]_vars

\* =================================================================== claims

\* The rule handled i-th by the latest state-change event.
Handled(i) == automations[lastOp.entity][i]

\* The timers of the runtime whose callback belongs to the rule id.
TimersOf(id) == {t \in timers : t.automation.id = id}

\* C1: after stop() is invoked no action is ever published: a timer pending
\* at stop() is cancelled by it, so no step after stop() publishes a command.
C1_NoPublishAfterStop == stopped => published = <<>>

\* C2: for a rule with `for`, once a NEGATIVE_EDGE result for the rule id has
\* arrived while its timer was pending, that timer is gone from the pending
\* map and from the runtime, its callback never runs and no command is
\* published from it, whatever the conditions and the target states are.
C2_NegativeEdgeCancels ==
    /\ \A id \in DOMAIN timeouts : timeouts[id] \notin negated
    /\ \A t \in timers : t.h \notin negated
    /\ lastOp.kind = "timeout" => lastOp.timer \notin negated
    /\ \A i \in 1..Len(published) : published[i].timer \notin negated
    /\ lastOp.kind = "stateChange" =>
         \A i \in 1..Len(results) :
            results[i].result = NEGATIVE_EDGE =>
               /\ Handled(i).id \notin DOMAIN timeouts
               /\ TimersOf(Handled(i).id) = {}
               /\ \A k \in 1..Len(published) : published[k].rule # Handled(i).id

\* C2 witness: a NEGATIVE_EDGE reached a rule with `for` whose timer was
\* pending, and time had already passed on that timer.
C2_Witness ==
    /\ lastOp.kind = "stateChange"
    /\ \E i \in 1..Len(results) :
          /\ results[i].result = NEGATIVE_EDGE
          /\ results[i].pending
          /\ Handled(i).trigger.for # 0
          /\ \E w \in results[i].was : w.left < Handled(i).trigger.for

\* C3: for a rule with `for`, a MATCH that arrives while the rule's timer is
\* pending leaves that one timer as it is (same handle, same time left, same
\* entry of the pending map), starts no second one and publishes nothing for
\* the rule; the timer started by the first MATCH is the one that expires,
\* and once its callback has run it is scheduled no more, so the batch runs once.
C3_MatchWhilePendingIgnored ==
    /\ lastOp.kind = "stateChange" =>
          \A i \in 1..Len(results) :
             (results[i].result = MATCH /\ results[i].pending) =>
                LET id == Handled(i).id
                IN  /\ Cardinality(TimersOf(id)) = 1
                    /\ {[h |-> t.h, left |-> t.left] : t \in TimersOf(id)}
                          = results[i].was
                    /\ id \in DOMAIN timeouts
                    /\ \A t \in TimersOf(id) : timeouts[id] = t.h
                    /\ \A k \in 1..Len(published) : published[k].rule # id
    /\ lastOp.kind = "timeout" =>
          /\ \A t \in timers : t.h # lastOp.timer
          /\ \A id \in DOMAIN timeouts : timeouts[id] # lastOp.timer
          /\ \A k \in 1..Len(published) : published[k].timer = lastOp.timer

\* C3 witness: a MATCH reached a rule whose timer had been running for a while.
C3_Witness ==
    /\ lastOp.kind = "stateChange"
    /\ \E i \in 1..Len(results) :
          /\ results[i].result = MATCH
          /\ results[i].pending
          /\ \E t \in TimersOf(Handled(i).id) : t.left < Handled(i).trigger.for

\* C4: for each rule id there is at most one scheduled, not yet run timer, and
\* the pending map has an entry for the id exactly when there is one, the
\* entry holding that timer's handle.
C4_OneTimerPerRule ==
    \A id \in {r.id : r \in Rules(automations)} \cup DOMAIN timeouts
                \cup {t.automation.id : t \in timers} :
       /\ Cardinality(TimersOf(id)) <= 1
       /\ id \in DOMAIN timeouts <=> TimersOf(id) # {}
       /\ \A t \in TimersOf(id) : timeouts[id] = t.h

\* C4 witness: one rule's timer has just run (its entry is gone) while the
\* timer of another rule, started later, is still pending.
C4_Witness ==
    /\ lastOp.kind = "timeout"
    /\ timers # {}
    /\ \A t \in timers : t.h > lastOp.timer

\* ---- claims about checkTrigger, under SpecTrigger

\* The one element of a non-empty optional value.
The(opt) == CHOOSE x \in opt : TRUE

\* The attribute is present in update, from and to of the checked event.
InputHas(attribute) ==
    /\ attribute \in DOMAIN input.update
    /\ attribute \in DOMAIN input.from
    /\ attribute \in DOMAIN input.to

\* C5: a numeric-state trigger with both `above` and `below` yields MATCH for
\* an event that carries the attribute in update, from and to, whose
\* from-value lies outside the range and whose to-value lies inside it.
C5_CrossingIntoRangeMatches ==
    (/\ output # {}
     /\ input.trigger.platform = "numeric_state"
     /\ input.trigger.above # {} /\ input.trigger.below # {}
     /\ InputHas("temperature")) =>
       LET above == The(input.trigger.above)
           below == The(input.trigger.below)
           from  == input.from["temperature"]
           to    == input.to["temperature"]
       IN  ((from < above \/ from > below) /\ to >= above /\ to <= below)
              => output = {MATCH}

\* C6: an action-platform trigger yields MATCH iff the update carries an
\* `action` whose value is an accepted action name, and NO_MATCH otherwise;
\* never NEGATIVE_EDGE.
C6_ActionMatchOrNoMatch ==
    (output # {} /\ input.trigger.platform = "action") =>
       output = {IF /\ "action" \in DOMAIN input.update
                    /\ input.update["action"] \in Range(toArray(input.trigger.action))
                 THEN MATCH ELSE NO_MATCH}

\* C9: for a state-like trigger (state, state_l1, state_l2) with attribute attr
\* (the configured one, or the platform's default): when update, from or to
\* lacks attr, or from[attr] = to[attr], the result is NO_MATCH whatever
\* update[attr] is; otherwise it is MATCH iff update[attr] is an accepted
\* value, whether or not update[attr] equals to[attr].
C9_StateLikeTrigger ==
    (output # {} /\ input.trigger.platform \in {"state", "state_l1", "state_l2"}) =>
       LET trigger  == input.trigger
           attr     == IF trigger.attribute # {} THEN The(trigger.attribute)
                       ELSE trigger.platform
           accepted == IF trigger.platform = "state" THEN trigger.state
                       ELSE IF trigger.platform = "state_l1" THEN trigger.state_l1
                       ELSE trigger.state_l2
           values   == IF accepted.k = "many" THEN Range(accepted.v) ELSE {accepted.v}
       IN  IF ~InputHas(attr) THEN output = {NO_MATCH}
           ELSE IF input.from[attr] = input.to[attr] THEN output = {NO_MATCH}
           ELSE (output = {MATCH}) <=> (input.update[attr] \in values)

\* C9 witness: a state-like trigger on its default attribute matched an event
\* whose update value differs from its to value.
C9_Witness ==
    /\ output = {MATCH}
    /\ input.trigger.platform = "state_l1"
    /\ input.trigger.attribute = {}
    /\ InputHas("state_l1")
    /\ input.update["state_l1"] # input.to["state_l1"]

\* C10: for a numeric-state trigger with only `above` set: the result is MATCH
\* exactly when the attribute is present in update, from and to,
\* from < above and to >= above; so to < above gives no MATCH and
\* from >= above gives no MATCH.
C10_AboveOnlyFreshCrossing ==
    (/\ output # {}
     /\ input.trigger.platform = "numeric_state"
     /\ input.trigger.above # {} /\ input.trigger.below = {}) =>
       LET above == The(input.trigger.above)
           has   == InputHas("temperature")
       IN  /\ (output = {MATCH}) <=>
                 (/\ has
                  /\ input.from["temperature"] < above
                  /\ input.to["temperature"] >= above)
           /\ (has /\ input.to["temperature"] < above) => output # {MATCH}
           /\ (has /\ input.from["temperature"] >= above) => output # {MATCH}

\* C10 witness: a trigger with only `above` matched an upward crossing that
\* ends exactly on the threshold.
C10_Witness ==
    /\ output = {MATCH}
    /\ input.trigger.platform = "numeric_state"
    /\ input.trigger.above # {} /\ input.trigger.below = {}
    /\ input.to["temperature"] = The(input.trigger.above)

\* ---- claims about parseConfig, under SpecParse

\* The replicas of a rule store as (entity, position) pairs.
Replicas(store) == UNION {{<<e, i>> : i \in 1..Len(store[e])} : e \in DOMAIN store}

MessagesOf(i) ==
    {k \in 1..Len(The(output)) : The(output)[k].idx = i}

\* C8: for every turn_on, turn_off or toggle action on a resolvable target,
\* runActions publishes exactly one {state: newState} command when the new
\* state differs from the target's current `state` and nothing when they are
\* equal; turn_on on an ON target and turn_off on an OFF target publish nothing.
C8_NoRedundantStateChange ==
    output # {} =>
       \A i \in 1..Len(input.actions) :
          LET action  == input.actions[i]
              current == Get(input.live[action.entity], "state")
              new     == CASE action.service = "turn_on" -> "ON"
                           [] action.service = "turn_off" -> "OFF"
                           [] OTHER -> IF current = {"ON"} THEN "OFF" ELSE "ON"
          IN  (action.service # "custom" /\ action.entity \in Resolvable) =>
                 IF current = {new}
                 THEN MessagesOf(i) = {}
                 ELSE /\ Cardinality(MessagesOf(i)) = 1
                      /\ \A k \in MessagesOf(i) :
                            /\ The(output)[k].payload = [state |-> new]
                            /\ The(output)[k].topic = action.entity

\* C8 witness: a call with turn_on on a target that is ON (skipped) followed
\* by turn_off on the same target (published).
C8_Witness ==
    /\ output # {}
    /\ Len(input.actions) = 2
    /\ input.actions[1].service = "turn_on"
    /\ input.actions[2].service = "turn_off"
    /\ input.actions[1].entity = "Y" /\ input.actions[2].entity = "Y"
    /\ input.live["Y"] = MapOf("state", {"ON"})
    /\ Len(The(output)) = 1

\* The threshold of the rule of a sequence of events.
Threshold == The(settings[1].trigger.above)

\* The first three reports are below, at or above, and at or above the
\* threshold, and the first event's `from` is not at or above it.
ScenarioC ==
    /\ Len(output) >= 3
    /\ input.to[1] < Threshold
    /\ input.to[2] >= Threshold
    /\ input.to[3] >= Threshold
    /\ \A v \in input.from : v < Threshold

\* While the value stays at or above the threshold the rule yields NO_MATCH
\* and publishes nothing.
NoRefire ==
    \A k \in 2..Len(output) :
       (input.to[k - 1] >= Threshold /\ input.to[k] >= Threshold) =>
          /\ output[k].result = NO_MATCH
          /\ output[k].published = <<>>

\* The second event fires the rule once, the third does not.
FiresOnSecond ==
    /\ output[2].result = MATCH
    /\ Len(output[2].published) = 1
    /\ output[3].result = NO_MATCH
    /\ output[1].published = <<>>
    /\ output[3].published = <<>>

\* C11 as stated: for a numeric trigger with `above` and reports below, above
\* and above the threshold, the first event yields NO_MATCH, the second MATCH
\* and the third NO_MATCH; a rule without `for` runs its actions exactly
\* once, on the second event, and it does not fire again while the value
\* stays at or above the threshold.
C11_FirstReportNoMatch ==
    /\ ScenarioC => (output[1].result = NO_MATCH /\ FiresOnSecond)
    /\ NoRefire

\* C11: for a numeric trigger with `above` and reports below, above and
\* above the threshold, the first event yields NO_MATCH when its `from` has
\* no temperature or the temperature of its `to`, and NEGATIVE_EDGE when its
\* `from` has another temperature; the second event yields MATCH and the
\* third NO_MATCH; a rule without `for` runs its actions exactly once, on the
\* second event, and it does not fire again while the value stays at or above
\* the threshold.
C11_FirstReportNeverMatch ==
    /\ ScenarioC =>
          /\ output[1].result = IF input.from = {} \/ input.from = {input.to[1]}
                                THEN NO_MATCH ELSE NEGATIVE_EDGE
          /\ FiresOnSecond
    /\ NoRefire

\* C11 witness: the three events are delivered, the first from another
\* temperature below the threshold, the third from a different temperature at
\* or above it.
C11_Witness ==
    /\ ScenarioC
    /\ input.from # {} /\ input.from # {input.to[1]}
    /\ input.to[3] # input.to[2]

\* C12 as stated: for a rule with `for`, every event for the rule that
\* arrives while its timer is pending and whose to-value leaves the trigger's
\* matching region (numeric: below `above` or above `below`; state-like: a
\* transition to a value outside the accepted set) cancels the timer, so the
\* actions run at expiry only if the trigger held uninterrupted.
C12_LeavingCancels ==
    lastOp.kind = "stateChange" =>
       \A i \in 1..Len(results) :
          (results[i].pending /\ results[i].leaves # "no") =>
             /\ Handled(i).id \notin DOMAIN timeouts
             /\ TimersOf(Handled(i).id) = {}

\* C12: for a rule with `for`, every event for the rule that arrives while
\* its timer is pending, whose from and to carry the trigger's attribute with
\* different values, whose to-value is outside the trigger's matching region
\* and whose update carries that to-value cancels the timer: the rule is idle
\* after the event and that timer never runs.
C12_ReportedLeavingCancels ==
    lastOp.kind = "stateChange" =>
       \A i \in 1..Len(results) :
          (results[i].pending /\ results[i].leaves = "left") =>
             /\ results[i].result = NEGATIVE_EDGE
             /\ Handled(i).id \notin DOMAIN timeouts
             /\ TimersOf(Handled(i).id) = {}
             /\ \A t \in timers : \A w \in results[i].was : t.h # w.h

\* C12 witness: a numeric rule's timer is pending when an event reports a
\* value outside the matching region, and the timer is gone after it.
C12_Witness ==
    /\ lastOp.kind = "stateChange"
    /\ \E i \in 1..Len(results) :
          /\ Handled(i).trigger.platform = "numeric_state"
          /\ results[i].pending
          /\ results[i].was # {}
          /\ results[i].leaves = "left"
          /\ TimersOf(Handled(i).id) = {}

\* The commands of the latest step that come from the rule id, in order.
PublishedBy(id) == SelectSeq(published, LAMBDA m : m.rule = id)

\* C13: a rule's actions run, immediately or at timer expiry, if and only if
\* every condition of its list is satisfied by the live state at that
\* moment: the commands of the rule are then those of its whole action list,
\* and none at all when a single condition is unsatisfied; an empty list is
\* always satisfied.
C13_ConditionsGateActions ==
    /\ lastOp.kind = "timeout" =>
          LET r == lastOp.fired.automation
          IN  published = IF \A i \in 1..Len(r.condition) :
                                 checkCondition(r.condition[i], state)
                          THEN runActions(r.action, state, r.id, lastOp.timer)
                          ELSE <<>>
    /\ lastOp.kind = "stateChange" =>
          \A i \in 1..Len(results) :
             LET r == Handled(i)
             IN  (results[i].result = MATCH /\ r.trigger.for = 0) =>
                    PublishedBy(r.id) =
                       IF \A k \in 1..Len(r.condition) :
                             checkCondition(r.condition[k], state)
                       THEN runActions(r.action, state, r.id, 0)
                       ELSE <<>>

\* C13 witness: a timer expires whose rule has two conditions, the first
\* satisfied and the second not, and an action that would publish: nothing is
\* published.
C13_Witness ==
    /\ lastOp.kind = "timeout"
    /\ Len(lastOp.fired.automation.condition) = 2
    /\ checkCondition(lastOp.fired.automation.condition[1], state)
    /\ ~checkCondition(lastOp.fired.automation.condition[2], state)
    /\ runActions(lastOp.fired.automation.action, state, 0, 0) # <<>>
    /\ published = <<>>

\* The raw entry has an unrecognized trigger platform, no trigger entity, an
\* action with an unrecognized service, or a condition with no entity or an
\* unrecognized platform.
Rejected(entry) ==
    \/ entry.trigger.platform \notin
          {"action", "state", "state_l1", "state_l2", "numeric_state"}
    \/ entry.trigger.entity = None
    \/ \E a \in Range(toArray(entry.action)) :
          a.service \notin {"toggle", "turn_on", "turn_off", "custom"}
    \/ /\ entry.condition # None
       /\ \E c \in Range(toArray(entry.condition)) :
             \/ c.entity = {}
             \/ c.platform \notin
                  {"action", "state", "state_l1", "state_l2", "numeric_state"}

\* The positions of the bucket of entity e that hold a rule of raw entry k.
RulesOfEntry(store, e, k) ==
    IF e \in DOMAIN store THEN {i \in 1..Len(store[e]) : store[e][i].raw = k}
    ELSE {}

\* C14: a rejected raw entry contributes no rule to any bucket, also when it
\* names several entities and only a later action or condition is invalid,
\* and every other entry of the configuration is loaded in full: one rule per
\* entity it names, with the entry's trigger and its action and condition
\* lists.
C14_RejectedEntryLoadsNothing ==
    output # {} =>
       \A k \in 1..Len(input) :
          IF Rejected(input[k])
          THEN \A e \in DOMAIN The(output) : RulesOfEntry(The(output), e, k) = {}
          ELSE /\ \A e \in Range(toArray(input[k].trigger.entity)) :
                     /\ Cardinality(RulesOfEntry(The(output), e, k)) = 1
                     /\ \A i \in RulesOfEntry(The(output), e, k) :
                           /\ The(output)[e][i].trigger = input[k].trigger
                           /\ The(output)[e][i].action = toArray(input[k].action)
                           /\ The(output)[e][i].condition =
                                 IF input[k].condition = None THEN <<>>
                                 ELSE toArray(input[k].condition)
               /\ \A e \in DOMAIN The(output) :
                     RulesOfEntry(The(output), e, k) # {} =>
                        e \in Range(toArray(input[k].trigger.entity))

\* C14 witness: an entry naming two entities whose second condition is
\* invalid, followed by a valid entry naming two entities: only the second
\* entry's rules are in the store.
C14_Witness ==
    /\ output # {}
    /\ Len(input) = 2
    /\ input[1] \in {BadCondition, BadGuard}
    /\ input[2] = BothSwitches
    /\ DOMAIN The(output) = {"X", "W"}
    /\ \A e \in {"X", "W"} : Len(The(output)[e]) = 1

\* C15: a rule without `for` never has an entry in the pending-timer map nor
\* a timer in the runtime, so its MATCH is never suppressed by the pending
\* check: within the processing of the matching event its conditions are
\* evaluated and its actions run, and no timer expiry ever belongs to it.
C15_NoForRunsWithinEvent ==
    /\ \A r \in Rules(automations) :
          r.trigger.for = 0 => (r.id \notin DOMAIN timeouts /\ TimersOf(r.id) = {})
    /\ lastOp.kind = "timeout" => lastOp.fired.automation.trigger.for # 0
    /\ lastOp.kind = "stateChange" =>
          \A i \in 1..Len(results) :
             (Handled(i).trigger.for = 0 /\ results[i].result = MATCH) =>
                /\ ~results[i].pending
                /\ results[i].was = {}
                /\ PublishedBy(Handled(i).id) =
                      runActionsWithConditions(Handled(i).condition,
                          Handled(i).action, state, Handled(i).id, 0)

\* C15 witness: a rule without `for` matches and publishes while the timer
\* of another rule of the same bucket is pending.
C15_Witness ==
    /\ lastOp.kind = "stateChange"
    /\ timers # {}
    /\ \E i \in 1..Len(results) :
          /\ Handled(i).trigger.for = 0
          /\ results[i].result = MATCH
          /\ PublishedBy(Handled(i).id) # <<>>
          /\ \E t \in timers : t.automation \in Range(automations[lastOp.entity])

\* C16: a `custom` action on a resolvable target publishes exactly one
\* command, to that target, whose payload is the configured `data`
\* unchanged, whatever the target's current state is.
C16_CustomAlwaysPublishesData ==
    output # {} =>
       \A i \in 1..Len(input.actions) :
          (input.actions[i].service = "custom"
             /\ input.actions[i].entity \in {"X", "W", "Y"}) =>
                /\ Cardinality(MessagesOf(i)) = 1
                /\ \A k \in MessagesOf(i) :
                      /\ The(output)[k].payload = input.actions[i].data
                      /\ The(output)[k].topic = input.actions[i].entity

\* C16 witness: custom actions on a target whose state is undefined and on a
\* target whose state already is the state of the data; both are published.
C16_Witness ==
    /\ output # {}
    /\ Len(input.actions) = 2
    /\ input.actions[1] = Action("X", "custom", [state |-> "TOGGLE"])
    /\ input.actions[2] = Action("Y", "custom", [state |-> "TOGGLE"])
    /\ input.live["X"] = EmptyMap
    /\ input.live["Y"] = MapOf("state", {"TOGGLE"})
    /\ Len(The(output)) = 2

\* C17: an event that yields NO_MATCH for a rule leaves the rule's state
\* untouched: the rule has an entry in the pending-timer map after the event
\* exactly when it had one before, its timer keeps its handle and its time
\* left, and nothing is published for the rule.
C17_NoMatchChangesNothing ==
    lastOp.kind = "stateChange" =>
       \A i \in 1..Len(results) :
          results[i].result = NO_MATCH =>
             /\ results[i].pending <=> Handled(i).id \in DOMAIN timeouts
             /\ {[h |-> t.h, left |-> t.left] : t \in TimersOf(Handled(i).id)}
                   = results[i].was
             /\ results[i].pending =>
                   \E w \in results[i].was : timeouts[Handled(i).id] = w.h
             /\ PublishedBy(Handled(i).id) = <<>>

\* C17 witness: a state-like rule whose timer has been running for a while
\* gets an event that yields NO_MATCH, and the timer is still there with the
\* time it had left.
C17_Witness ==
    /\ lastOp.kind = "stateChange"
    /\ \E i \in 1..Len(results) :
          /\ Handled(i).trigger.platform \in {"state", "state_l1", "state_l2"}
          /\ results[i].result = NO_MATCH
          /\ results[i].pending
          /\ \E t \in TimersOf(Handled(i).id) :
                /\ t.left < Handled(i).trigger.for
                /\ [h |-> t.h, left |-> t.left] \in results[i].was

\* C18: a condition whose entity cannot be resolved is treated as satisfied:
\* it never blocks the actions, and the other conditions of the list are
\* still evaluated, so the actions run exactly when every condition on a
\* resolvable entity holds.
C18_UnresolvedConditionSatisfied ==
    output # {} =>
       /\ \A i \in 1..Len(input.conditions) :
             input.conditions[i].entity = {"Z"} =>
                checkCondition(input.conditions[i], input.live)
       /\ The(output) =
             IF \A i \in 1..Len(input.conditions) :
                   input.conditions[i].entity = {"Y"} =>
                      checkCondition(input.conditions[i], input.live)
             THEN runActions(input.actions, input.live, 1, 0)
             ELSE <<>>

\* C18 witness: a list whose first condition is on the unresolvable entity,
\* expecting a state no entity has, and whose second condition holds: the
\* action is published.
C18_Witness ==
    /\ output # {}
    /\ Len(input.conditions) = 2
    /\ input.conditions[1] = Condition({"Z"}, "state", {}, {"ON"}, {}, {})
    /\ input.conditions[2] = Condition({"Y"}, "state", {}, {"OFF"}, {}, {})
    /\ Get(input.live["Y"], "state") = {"OFF"}
    /\ Len(The(output)) = 1

\* C19: for a rule with `for` the conditions are evaluated when the timer
\* expires, against the live state of that moment, not when the trigger
\* matched: conditions satisfied at the MATCH and unsatisfied at expiry give
\* no command, conditions unsatisfied at the MATCH and satisfied at expiry
\* give the commands of the action list, and either way the rule is idle
\* after the expiry.
C19_ConditionsCheckedAtExpiry ==
    lastOp.kind = "timeout" =>
       LET r == lastOp.fired.automation
           now == Satisfied(r.condition, state)
       IN  /\ (lastOp.fired.met /\ ~now) => published = <<>>
           /\ (~lastOp.fired.met /\ now) =>
                 published = runActions(r.action, state, r.id, lastOp.timer)
           /\ r.id \notin DOMAIN timeouts
           /\ TimersOf(r.id) = {}

\* C19 witness: a timer started while a condition of its rule was
\* unsatisfied expires when every condition is satisfied, and the rule's
\* command is published.
C19_Witness ==
    /\ lastOp.kind = "timeout"
    /\ ~lastOp.fired.met
    /\ Satisfied(lastOp.fired.automation.condition, state)
    /\ published # <<>>

\* The position in the bucket of the latest event's entity of the rule id.
PositionOf(id) ==
    CHOOSE i \in 1..Len(automations[lastOp.entity]) : Handled(i).id = id

\* C20: within one event the rules of the entity's bucket are handled in
\* their insertion order, which is the order of the configuration, each rule
\* completing before the next starts: the commands of the event appear in
\* the order of the rules in the bucket and, for one rule, in the order of
\* its action list, and each rule's commands are those of its own handling.
C20_PublishesInRuleOrder ==
    /\ \A e \in DOMAIN automations :
          \A i, j \in 1..Len(automations[e]) :
             i < j => automations[e][i].raw <= automations[e][j].raw
    /\ (lastOp.kind = "stateChange" /\ lastOp.entity \in DOMAIN automations) =>
          /\ Len(results) = Len(automations[lastOp.entity])
          /\ \A a, b \in 1..Len(published) :
                a < b =>
                   \/ PositionOf(published[a].rule) < PositionOf(published[b].rule)
                   \/ /\ published[a].rule = published[b].rule
                      /\ published[a].idx < published[b].idx
          /\ \A i \in 1..Len(results) :
                PublishedBy(Handled(i).id) =
                   IF results[i].result = MATCH /\ Handled(i).trigger.for = 0
                   THEN runActionsWithConditions(Handled(i).condition,
                            Handled(i).action, state, Handled(i).id, 0)
                   ELSE <<>>

\* C20 witness: one event matches two rules of a bucket; the first rule's
\* command comes first, then the two commands of the second rule in the
\* order of its actions.
C20_Witness ==
    /\ lastOp.kind = "stateChange"
    /\ Len(published) = 3
    /\ PositionOf(published[1].rule) < PositionOf(published[2].rule)
    /\ published[2].rule = published[3].rule
    /\ published[2].idx = 1
    /\ published[3].idx = 2

\* C21: a `toggle` action on a resolvable target publishes exactly one
\* command, to that target: state OFF when the target's current state is ON,
\* and state ON when it is OFF, undefined or any other value.
C21_ToggleAlwaysPublishes ==
    output # {} =>
       \A i \in 1..Len(input.actions) :
          (input.actions[i].service = "toggle"
             /\ input.actions[i].entity \in {"X", "W", "Y"}) =>
                /\ Cardinality(MessagesOf(i)) = 1
                /\ \A k \in MessagesOf(i) :
                      /\ The(output)[k].topic = input.actions[i].entity
                      /\ The(output)[k].payload =
                            IF Get(input.live[input.actions[i].entity], "state")
                                  = {"ON"}
                            THEN [state |-> "OFF"] ELSE [state |-> "ON"]

\* C21 witness: toggle on a target whose state is undefined and on a target
\* whose state is neither ON nor OFF: both publish state ON.
C21_Witness ==
    /\ output # {}
    /\ Len(input.actions) = 2
    /\ input.actions[1] = Action("X", "toggle", <<>>)
    /\ input.actions[2] = Action("Y", "toggle", <<>>)
    /\ input.live["X"] = EmptyMap
    /\ input.live["Y"] = MapOf("state", {"TOGGLE"})
    /\ Len(The(output)) = 2
    /\ \A k \in 1..2 : The(output)[k].payload = [state |-> "ON"]

\* The mqtt.onMessage calls of the latest step without their history fields.
Calls(messages) ==
    [k \in 1..Len(messages) |->
       [topic |-> messages[k].topic, payload |-> messages[k].payload]]

\* C22: on a configuration that uses only action, state and numeric_state
\* triggers, the services toggle, turn_on and turn_off, no `for` and no
\* condition, the two variants load the same rules (the same buckets with
\* the same triggers and action lists in the same order) and, for every
\* event and every state of the targets, make the same mqtt.onMessage calls
\* in the same order.
C22_VariantsAgree ==
    /\ DOMAIN output.automations = DOMAIN automations
    /\ \A e \in DOMAIN automations :
          /\ Len(output.automations[e]) = Len(automations[e])
          /\ \A i \in 1..Len(automations[e]) :
                /\ output.automations[e][i].trigger = automations[e][i].trigger
                /\ output.automations[e][i].action = automations[e][i].action
                /\ automations[e][i].condition = <<>>
    /\ lastOp.kind = "stateChange" => output.published = Calls(published)
    /\ timers = {}

\* C22 witness: an event crosses the threshold of a numeric rule and both
\* variants publish the rule's command.
C22_Witness ==
    /\ lastOp.kind = "stateChange"
    /\ output.published # <<>>
    /\ published # <<>>
    /\ \E i \in 1..Len(results) :
          /\ Handled(i).trigger.platform = "numeric_state"
          /\ Handled(i).trigger.above # {}
          /\ results[i].result = MATCH

====
